---- MODULE Spec2Model ----
\* Persistent binomial and leftist heaps (okasakish): src/src/heap.rs,
\* src/src/binomial_heap.rs, src/src/leftist_heap.rs.
\*
\* Arc<Node<T>> values live in the node store `nodes`; a Link is the index of
\* a node in the store and None is 0.  Arc::new puts a node into a free cell
\* of the store, Arc::clone copies the index, and a node that no handle can
\* reach any more is dropped, which frees its cell.  Vec indices are 1-based
\* here, so the slot of rank r of a BinomialHeap is trees[r + 1].
EXTENDS Integers, Sequences, FiniteSets, Bags, TLC

\* ---------------------------------------------------------------- bounds
MaxNodes == 3
MaxElem == 2
MaxLen == 4
MaxExtra == 2

\* T: the element type, ordered by <.
Elem == 1..MaxElem

\* Vec<T>: the inputs of the tests and of from_iter.
Inputs == UNION {[1..n -> Elem] : n \in 0..MaxLen}

\* The heap variables of a client, named as in test::merge_and_iter.  No
\* operation of the trait has more than two heap arguments.
Handles == {"h1", "h2"}

\* Option::None, of a Link and of the result of find_min.
None == 0

\* H        the implementation of Heap<T> in use
\* nodes    the Arc<Node<T>> values alive
\* heap     the value of each heap variable
\* pc       the position of the running function
\* original the Vec a test starts from
\* iter     the items of the input not consumed yet
\* stack    the stack of from_iter
\* output   the items a test has collected
\* nones    the number of None a drained iterator has returned
VARIABLES H, nodes, heap, pc, original, iter, stack, output, nones

vars == <<H, nodes, heap, pc, original, iter, stack, output, nones>>

Max(a, b) == IF a >= b THEN a ELSE b

\* ------------------------------------------------- Arc<Node<T>>
\* Arc::new(node): the store after the allocation and the new Link.
Arc_new(ns, node) == [nodes |-> Append(ns, node), link |-> Len(ns) + 1]

\* The Links a node holds, in stored order.
Links(node) ==
  IF H = "BinomialHeap" THEN node.children ELSE <<node.a, node.b>>

SeqRange(s) == {s[i] : i \in 1..Len(s)}

\* The nodes that the Links of todo reach, each once, in the order a
\* depth-first walk meets them.
RECURSIVE Reach(_, _, _)
Reach(ns, todo, acc) ==
  IF todo = << >> THEN acc
  ELSE IF Head(todo) = None \/ \E k \in 1..Len(acc) : acc[k] = Head(todo)
       THEN Reach(ns, Tail(todo), acc)
       ELSE Reach(ns, Links(ns[Head(todo)]) \o Tail(todo), Append(acc, Head(todo)))

\* The place of a Link in the store that keeps only the nodes of order.
Moved(order, link) ==
  IF link = None THEN None ELSE CHOOSE k \in 1..Len(order) : order[k] = link

MovedSeq(order, links) == [j \in 1..Len(links) |-> Moved(order, links[j])]

MovedNode(order, node) ==
  IF H = "BinomialHeap"
  THEN [node EXCEPT !.children = MovedSeq(order, node.children)]
  ELSE [node EXCEPT !.a = Moved(order, node.a), !.b = Moved(order, node.b)]

\* Drop of the last Arc of a node: the store keeps the nodes of order only.
\* A node has no identity but its Link, so the kept nodes are stored in the
\* order of the walk.
Arc_drop(ns, order) == [k \in 1..Len(order) |-> MovedNode(order, ns[order[k]])]

\* ------------------------------------------------- binomial_heap.rs
\* self.trees.iter().map(Option::as_ref).chain(iter::repeat(None))
chained(trees, i) == IF i <= Len(trees) THEN trees[i] ELSE None

\* binomial_link, had it pushed bigger onto the children of smaller itself
\* instead of onto a copy in a new node.
binomial_link_in_place(ns, a, b) ==
  LET smaller == IF ns[a].elem < ns[b].elem THEN a ELSE b
      bigger == IF ns[a].elem < ns[b].elem THEN b ELSE a
  IN [nodes |-> [ns EXCEPT ![smaller].children = Append(@, bigger)], link |-> smaller]

\* binomial_link, had it put bigger before the children of smaller.
binomial_link_prepend(ns, a, b) ==
  LET smaller == IF ns[a].elem < ns[b].elem THEN a ELSE b
      bigger == IF ns[a].elem < ns[b].elem THEN b ELSE a
      new_children == <<bigger>> \o ns[smaller].children
  IN Arc_new(ns, [elem |-> ns[smaller].elem, children |-> new_children])

binomial_link(ns, a, b) ==
  LET smaller == IF ns[a].elem < ns[b].elem THEN a ELSE b
      bigger == IF ns[a].elem < ns[b].elem THEN b ELSE a
      new_children == Append(ns[smaller].children, bigger)
  IN Arc_new(ns, [elem |-> ns[smaller].elem, children |-> new_children])

\* The match of the merge loop: the slot pushed onto result and the carry.
merge_slot(ns, a, b, c) ==
  CASE a = None /\ b = None /\ c = None -> [nodes |-> ns, slot |-> None, c |-> None]
    [] a # None /\ b = None /\ c = None -> [nodes |-> ns, slot |-> a, c |-> None]
    [] a = None /\ b # None /\ c = None -> [nodes |-> ns, slot |-> b, c |-> None]
    [] a = None /\ b = None /\ c # None -> [nodes |-> ns, slot |-> c, c |-> None]
    [] a # None /\ b # None /\ c = None ->
         LET l == binomial_link(ns, a, b) IN [nodes |-> l.nodes, slot |-> None, c |-> l.link]
    [] a # None /\ b = None /\ c # None ->
         LET l == binomial_link(ns, a, c) IN [nodes |-> l.nodes, slot |-> None, c |-> l.link]
    [] a = None /\ b # None /\ c # None ->
         LET l == binomial_link(ns, b, c) IN [nodes |-> l.nodes, slot |-> None, c |-> l.link]
    [] a # None /\ b # None /\ c # None ->
         LET l == binomial_link(ns, a, b) IN [nodes |-> l.nodes, slot |-> c, c |-> l.link]

RECURSIVE merge_loop(_, _, _, _, _, _, _)
merge_loop(ns, self, other, i, cap, result, c) ==
  IF i > cap THEN [nodes |-> ns, result |-> result]
  ELSE LET s == merge_slot(ns, chained(self, i), chained(other, i), c)
       IN merge_loop(s.nodes, self, other, i + 1, cap, Append(result, s.slot), s.c)

BinomialHeap_empty == << >>

BinomialHeap_is_empty(self) == Len(self) = 0

\* merge_cap without the slot for the last carry.
merge_cap_no_carry(self, other) == Max(Len(self), Len(other))

\* cap of merge: one slot past the longer input.
merge_cap(self, other) == Max(Len(self), Len(other)) + 1

BinomialHeap_merge(ns, self, other) ==
  LET cap == merge_cap(self, other)
      r == merge_loop(ns, self, other, 1, cap, << >>, None)
      result == IF Len(r.result) > 0 /\ r.result[Len(r.result)] = None
                THEN SubSeq(r.result, 1, Len(r.result) - 1)
                ELSE r.result
  IN [nodes |-> r.nodes, heap |-> result]

BinomialHeap_insert(ns, self, item) ==
  LET n == Arc_new(ns, [elem |-> item, children |-> << >>])
  IN BinomialHeap_merge(n.nodes, << n.link >>, self)

\* The fold of min_index over the non-empty slots after position i, with the
\* accumulator (ai, a).
RECURSIVE min_fold(_, _, _, _)
min_fold(ns, vec, i, ai) ==
  IF i > Len(vec) THEN ai
  ELSE IF vec[i] = None THEN min_fold(ns, vec, i + 1, ai)
  ELSE IF ai = None THEN min_fold(ns, vec, i + 1, i)
  ELSE IF ns[vec[ai]].elem < ns[vec[i]].elem THEN min_fold(ns, vec, i + 1, ai)
  ELSE min_fold(ns, vec, i + 1, i)

\* min_index, had it returned the first slot that holds a tree.
min_index_first(ns, vec) ==
  IF \A i \in 1..Len(vec) : vec[i] = None THEN None
  ELSE CHOOSE i \in 1..Len(vec) : vec[i] # None /\ \A j \in 1..(i - 1) : vec[j] = None

\* The index (1-based) of the slot with the smallest root, None if no slot
\* holds a tree.
min_index(ns, vec) == min_fold(ns, vec, 1, None)

BinomialHeap_find_min(ns, self) ==
  LET index == min_index(ns, self)
  IN IF index = None THEN None ELSE ns[self[index]].elem

BinomialHeap_delete_min(ns, self) ==
  LET index == min_index(ns, self)
  IN IF index = None THEN [nodes |-> ns, heap |-> BinomialHeap_empty]
     ELSE LET old_trees == [self EXCEPT ![index] = None]
              taken == self[index]
          IN BinomialHeap_merge(ns, old_trees, ns[taken].children)

\* ------------------------------------------------- leftist_heap.rs
leftist_link(ns, rk, elem, a, b) ==
  LET n == Arc_new(ns, [rank |-> rk, elem |-> elem, a |-> a, b |-> b])
  IN [nodes |-> n.nodes, heap |-> n.link]

rank(ns, link) == IF link = None THEN 0 ELSE ns[link].rank

\* merge_node without the swap of the children.
merge_node_no_swap(ns, elem, a, b) == leftist_link(ns, rank(ns, b) + 1, elem, a, b)

\* Lines 67-73 of merge: the child of larger rank becomes a.
merge_node(ns, elem, a, b) ==
  LET ra == rank(ns, a)
      rb == rank(ns, b)
  IN IF ra >= rb THEN leftist_link(ns, rb + 1, elem, a, b)
     ELSE leftist_link(ns, ra + 1, elem, b, a)

LeftistHeap_empty == None

LeftistHeap_is_empty(self) == self = None

RECURSIVE LeftistHeap_merge(_, _, _)
LeftistHeap_merge(ns, self, other) ==
  CASE self = None /\ other = None -> [nodes |-> ns, heap |-> None]
    [] self # None /\ other = None -> [nodes |-> ns, heap |-> self]
    [] self = None /\ other # None -> [nodes |-> ns, heap |-> other]
    [] self # None /\ other # None ->
         IF ns[self].elem <= ns[other].elem
         THEN LET m == LeftistHeap_merge(ns, ns[self].b, other)
              IN merge_node(m.nodes, ns[self].elem, ns[self].a, m.heap)
         ELSE LET m == LeftistHeap_merge(ns, self, ns[other].b)
              IN merge_node(m.nodes, ns[other].elem, ns[other].a, m.heap)

LeftistHeap_insert(ns, self, item) ==
  LET s == leftist_link(ns, 1, item, None, None)
  IN LeftistHeap_merge(s.nodes, self, s.heap)

LeftistHeap_find_min(ns, self) == IF self = None THEN None ELSE ns[self].elem

\* delete_min, had it returned the child a without merging b into it.
LeftistHeap_delete_min_keeps_a(ns, self) ==
  IF self = None THEN [nodes |-> ns, heap |-> LeftistHeap_empty]
  ELSE [nodes |-> ns, heap |-> ns[self].a]

LeftistHeap_delete_min(ns, self) ==
  IF self = None THEN [nodes |-> ns, heap |-> LeftistHeap_empty]
  ELSE LeftistHeap_merge(ns, ns[self].a, ns[self].b)

\* ------------------------------------------------- heap.rs: trait Heap<T>
Heap_empty == IF H = "BinomialHeap" THEN BinomialHeap_empty ELSE LeftistHeap_empty

Heap_is_empty(self) ==
  IF H = "BinomialHeap" THEN BinomialHeap_is_empty(self) ELSE LeftistHeap_is_empty(self)

Heap_insert(ns, self, item) ==
  IF H = "BinomialHeap" THEN BinomialHeap_insert(ns, self, item)
  ELSE LeftistHeap_insert(ns, self, item)

Heap_merge(ns, self, other) ==
  IF H = "BinomialHeap" THEN BinomialHeap_merge(ns, self, other)
  ELSE LeftistHeap_merge(ns, self, other)

Heap_find_min(ns, self) ==
  IF H = "BinomialHeap" THEN BinomialHeap_find_min(ns, self)
  ELSE LeftistHeap_find_min(ns, self)

Heap_delete_min(ns, self) ==
  IF H = "BinomialHeap" THEN BinomialHeap_delete_min(ns, self)
  ELSE LeftistHeap_delete_min(ns, self)

\* ------------------------------------------------- from_iter, IntoIter
\* Lines 129-130: the two breaks of the collapse loop.
collapse_break(ns, st) ==
  LET end == Len(st)
  IN IF end < 2 THEN TRUE
     ELSE rank(ns, st[end - 1]) <= rank(ns, st[end])

\* merge_top, had it pushed a back without merging b into it.
merge_top_drops_b(ns, st) ==
  [nodes |-> ns, stack |-> Append(SubSeq(st, 1, Len(st) - 2), st[Len(st)])]

\* a = stack.pop(), b = stack.pop(), stack.push(a.merge(&b))
merge_top(ns, st) ==
  LET end == Len(st)
      a == st[end]
      b == st[end - 1]
      m == LeftistHeap_merge(ns, a, b)
  IN [nodes |-> m.nodes, stack |-> Append(SubSeq(st, 1, end - 2), m.heap)]

\* One step of from_iter from the position f.pc:
\*   "while"  the head of while let Some(item) = iter.next()
\*   "loop"   the head of the collapse loop
\*   "rest"   the head of while stack.len() > 1
\*   "return" the last line
from_iter_step(f) ==
  CASE f.pc = "while" ->
         IF f.iter = << >> THEN [f EXCEPT !.pc = "rest"]
         ELSE LET s == leftist_link(f.nodes, 1, Head(f.iter), None, None)
              IN [pc |-> "loop", nodes |-> s.nodes, iter |-> Tail(f.iter),
                  stack |-> Append(f.stack, s.heap)]
    [] f.pc = "loop" ->
         IF collapse_break(f.nodes, f.stack) THEN [f EXCEPT !.pc = "while"]
         ELSE LET m == merge_top(f.nodes, f.stack)
              IN [f EXCEPT !.nodes = m.nodes, !.stack = m.stack]
    [] f.pc = "rest" ->
         IF Len(f.stack) > 1
         THEN LET m == merge_top(f.nodes, f.stack)
              IN [f EXCEPT !.nodes = m.nodes, !.stack = m.stack]
         ELSE [f EXCEPT !.pc = "return"]

RECURSIVE from_iter_run(_)
from_iter_run(f) == IF f.pc = "return" THEN f ELSE from_iter_run(from_iter_step(f))

\* stack.pop().unwrap_or(Heap::empty())
from_iter_result(st) == IF st = << >> THEN LeftistHeap_empty ELSE st[Len(st)]

LeftistHeap_from_iter(ns, iterator) ==
  LET f == from_iter_run([pc |-> "while", nodes |-> ns, iter |-> iterator, stack |-> << >>])
  IN [nodes |-> f.nodes, heap |-> from_iter_result(f.stack)]

\* IntoIter::next: the item and the heap the iterator holds afterwards.
IntoIter_next(ns, next) ==
  LET item == LeftistHeap_find_min(ns, next)
      d == LeftistHeap_delete_min(ns, next)
  IN [nodes |-> d.nodes, heap |-> d.heap, item |-> item]

\* input.sort() of heap.rs: insertion of x into a sorted sequence, and the
\* sorted sequence.
RECURSIVE SortedInsert(_, _)
SortedInsert(s, x) ==
  IF s = << >> THEN <<x>>
  ELSE IF x <= Head(s) THEN <<x>> \o s
  ELSE <<Head(s)>> \o SortedInsert(Tail(s), x)

RECURSIVE Sorted(_)
Sorted(s) == IF s = << >> THEN << >> ELSE SortedInsert(Sorted(Tail(s)), Head(s))

\* ------------------------------------------------- the heap variables
\* The Links a heap value holds, in stored order.
Roots(h) == IF H = "BinomialHeap" THEN h ELSE <<h>>

MovedHeap(order, h) ==
  IF H = "BinomialHeap" THEN MovedSeq(order, h) ELSE Moved(order, h)

\* The Links the client holds: its heap variables and the stack of from_iter.
AllRoots(hs, st) == Roots(hs["h1"]) \o Roots(hs["h2"]) \o st

\* The state after the client's variables became hs and st over the store
\* ns: the nodes they cannot reach are dropped.
Drop(ns, hs, st, order) ==
  /\ nodes' = Arc_drop(ns, order)
  /\ heap' = [h \in Handles |-> MovedHeap(order, hs[h])]
  /\ stack' = MovedSeq(order, st)

Assign(ns, hs, st) == Drop(ns, hs, st, Reach(ns, AllRoots(hs, st), << >>))

\* heap[d] = r.heap, where r is the result of an operation of the trait; the
\* heap that heap[d] held is dropped.
Bind(d, r) == Assign(r.nodes, [heap EXCEPT ![d] = r.heap], stack)

\* Bind, for a client that keeps no more than MaxNodes nodes alive.
BindAlive(d, r) ==
  LET hs == [heap EXCEPT ![d] = r.heap]
      order == Reach(r.nodes, AllRoots(hs, stack), << >>)
  IN /\ Len(order) <= MaxNodes
     /\ Drop(r.nodes, hs, stack, order)

Init ==
  /\ H \in {"BinomialHeap", "LeftistHeap"}
  /\ nodes = << >>
  /\ heap = [h \in Handles |-> Heap_empty]
  /\ pc = "idle"
  /\ original = << >>
  /\ iter = << >>
  /\ stack = << >>
  /\ output = << >>
  /\ nones = 0

\* let heap[d] = heap[s].insert(item)
Insert(s, d, item) ==
  /\ pc = "idle"
  /\ BindAlive(d, Heap_insert(nodes, heap[s], item))
  /\ UNCHANGED <<H, pc, original, iter, output, nones>>

\* let heap[d] = heap[s].merge(&heap[o])
Merge(s, o, d) ==
  /\ pc = "idle"
  /\ BindAlive(d, Heap_merge(nodes, heap[s], heap[o]))
  /\ UNCHANGED <<H, pc, original, iter, output, nones>>

\* let heap[d] = heap[s].delete_min()
DeleteMin(s, d) ==
  /\ pc = "idle"
  /\ BindAlive(d, Heap_delete_min(nodes, heap[s]))
  /\ UNCHANGED <<H, pc, original, iter, output, nones>>

\* let heap[d] = LeftistHeap::from_iter(input), as the first statement of the
\* client.
FromIter(d, input) ==
  /\ pc = "idle"
  /\ H = "LeftistHeap"
  /\ nodes = << >>
  /\ Len(input) <= MaxNodes
  /\ BindAlive(d, LeftistHeap_from_iter(nodes, input))
  /\ UNCHANGED <<H, pc, original, iter, output, nones>>

Next ==
  \/ \E d \in Handles, input \in Inputs : FromIter(d, input)
  \/ \E s \in Handles, d \in Handles, item \in Elem : Insert(s, d, item)
  \/ \E s \in Handles, o \in Handles, d \in Handles : Merge(s, o, d)
  \/ \E s \in Handles, d \in Handles : DeleteMin(s, d)

Spec == Init /\ [][Next]_vars

\* ------------------------------------------------- test::basics
\* heap.insert(..).insert(..) over the items of original, then delete_min
\* again and again; output collects find_min after the inserts and after
\* each delete_min.
BasicsInit ==
  /\ H \in {"BinomialHeap", "LeftistHeap"}
  /\ nodes = << >>
  /\ heap = [h \in Handles |-> Heap_empty]
  /\ pc = "insert"
  /\ original \in Inputs
  /\ iter = original
  /\ stack = << >>
  /\ output = << >>
  /\ nones = 0

BasicsInsert ==
  /\ pc = "insert"
  /\ iter # << >>
  /\ Bind("h1", Heap_insert(nodes, heap["h1"], Head(iter)))
  /\ iter' = Tail(iter)
  /\ UNCHANGED <<H, pc, original, output, nones>>

BasicsFindMin ==
  /\ pc = "insert"
  /\ iter = << >>
  /\ output' = Append(output, Heap_find_min(nodes, heap["h1"]))
  /\ pc' = "delete_min"
  /\ UNCHANGED <<H, nodes, heap, original, iter, stack, nones>>

BasicsDeleteMin ==
  /\ pc = "delete_min"
  /\ Len(output) < Len(original) + 1 + MaxExtra
  /\ Bind("h1", Heap_delete_min(nodes, heap["h1"]))
  /\ output' = Append(output, Heap_find_min(nodes', heap'["h1"]))
  /\ UNCHANGED <<H, pc, original, iter, nones>>

BasicsNext == BasicsInsert \/ BasicsFindMin \/ BasicsDeleteMin

BasicsSpec == BasicsInit /\ [][BasicsNext]_vars

\* ------------------------------------------------- properties::sorting
SortingInit ==
  /\ H \in {"BinomialHeap", "LeftistHeap"}
  /\ nodes = << >>
  /\ heap = [h \in Handles |-> Heap_empty]
  /\ pc = "insert"
  /\ original \in Inputs
  /\ iter = original
  /\ stack = << >>
  /\ output = << >>
  /\ nones = 0

\* for item in input.iter() { heap = heap.insert(item.clone()); }
SortingInsert ==
  /\ pc = "insert"
  /\ iter # << >>
  /\ Bind("h1", Heap_insert(nodes, heap["h1"], Head(iter)))
  /\ iter' = Tail(iter)
  /\ UNCHANGED <<H, pc, original, output, nones>>

SortingInserted ==
  /\ pc = "insert"
  /\ iter = << >>
  /\ pc' = "loop"
  /\ UNCHANGED <<H, nodes, heap, original, iter, stack, output, nones>>

\* One turn of the loop: break if the heap is empty, otherwise push
\* find_min().unwrap(), which panics on None, and delete_min.
SortingLoop ==
  /\ pc = "loop"
  /\ IF Heap_is_empty(heap["h1"])
     THEN /\ pc' = "done"
          /\ UNCHANGED <<nodes, heap, stack, output>>
     ELSE IF Heap_find_min(nodes, heap["h1"]) = None
     THEN /\ pc' = "panic"
          /\ UNCHANGED <<nodes, heap, stack, output>>
     ELSE /\ output' = Append(output, Heap_find_min(nodes, heap["h1"]))
          /\ Bind("h1", Heap_delete_min(nodes, heap["h1"]))
          /\ pc' = pc
  /\ UNCHANGED <<H, original, iter, nones>>

SortingNext == SortingInsert \/ SortingInserted \/ SortingLoop

SortingSpec == SortingInit /\ [][SortingNext]_vars

\* ------------------------------------------------- test::from_iter
\* let heap = LeftistHeap::from_iter(original), step by step, and then the
\* calls of next on heap.into_iter().
FromIterInit ==
  /\ H = "LeftistHeap"
  /\ nodes = << >>
  /\ heap = [h \in Handles |-> Heap_empty]
  /\ pc = "while"
  /\ original \in Inputs
  /\ iter = original
  /\ stack = << >>
  /\ output = << >>
  /\ nones = 0

\* The step of from_iter at pc.
FromIterStep ==
  LET f == from_iter_step([pc |-> pc, nodes |-> nodes, iter |-> iter, stack |-> stack])
  IN /\ pc' = f.pc
     /\ iter' = f.iter
     /\ Assign(f.nodes, heap, f.stack)
     /\ UNCHANGED <<H, original, output, nones>>

FromIterPush == pc = "while" /\ iter # << >> /\ FromIterStep

FromIterExhausted == pc = "while" /\ iter = << >> /\ FromIterStep

FromIterLoop == pc = "loop" /\ FromIterStep

FromIterRest == pc = "rest" /\ FromIterStep

\* The heap from_iter returns is moved into IntoIter { next }; the model
\* keeps it in h1.
FromIterReturn ==
  /\ pc = "return"
  /\ Assign(nodes, [heap EXCEPT !["h1"] = from_iter_result(stack)], << >>)
  /\ pc' = "next"
  /\ UNCHANGED <<H, original, iter, output, nones>>

\* A call of next on the iterator; the caller pushes a Some(item) and counts
\* a None.
IntoIterNext ==
  /\ pc = "next"
  /\ nones < MaxExtra
  /\ LET n == IntoIter_next(nodes, heap["h1"])
     IN /\ Bind("h1", n)
        /\ IF n.item = None
           THEN nones' = nones + 1 /\ output' = output
           ELSE nones' = nones /\ output' = Append(output, n.item)
  /\ UNCHANGED <<H, pc, original, iter>>

FromIterNext ==
  \/ FromIterPush
  \/ FromIterExhausted
  \/ FromIterLoop
  \/ FromIterRest
  \/ FromIterReturn
  \/ IntoIterNext

FromIterSpec == FromIterInit /\ [][FromIterNext]_vars

\* ------------------------------------------------- what a heap holds
\* The elements of the trees of links, one for every node of every tree.
RECURSIVE Elements(_, _)
Elements(ns, links) ==
  IF links = << >> THEN << >>
  ELSE IF Head(links) = None THEN Elements(ns, Tail(links))
  ELSE <<ns[Head(links)].elem>> \o Elements(ns, Links(ns[Head(links)]) \o Tail(links))

\* The multiset of the elements of heap value h over the store ns: the
\* number of times it holds each element.
HeapElems(ns, h) ==
  LET es == Elements(ns, Roots(h))
  IN [e \in Elem |-> Cardinality({i \in 1..Len(es) : es[i] = e})]

HeapSize(ns, h) == Len(Reach(ns, Roots(h), << >>))

RECURSIVE TreeSize(_, _)
TreeSize(ns, t) ==
  LET kids == ns[t].children
      SumSizes[j \in 0..Len(kids)] == IF j = 0 THEN 0 ELSE SumSizes[j - 1] + TreeSize(ns, kids[j])
  IN 1 + SumSizes[Len(kids)]

\* t is a binomial tree of rank r: r children, the j-th of rank j - 1.
RECURSIVE IsBinomialTree(_, _, _)
IsBinomialTree(ns, t, r) ==
  /\ Len(ns[t].children) = r
  /\ \A j \in 1..r : IsBinomialTree(ns, ns[t].children[j], j - 1)

\* ------------------------------------------------- C1
\* C1: is_empty of a BinomialHeap is true iff the heap holds no element.
IsEmptyIffNoElements ==
  H = "BinomialHeap" =>
    \A h \in Handles :
      BinomialHeap_is_empty(heap[h]) <=> (\A e \in Elem : HeapElems(nodes, heap[h])[e] = 0)

\* ------------------------------------------------- C8
\* C8: the slot sequence of a BinomialHeap has no trailing empty slot: it is
\* of length zero or its last slot holds a tree.
NoTrailingEmptySlot ==
  H = "BinomialHeap" =>
    \A h \in Handles : Len(heap[h]) = 0 \/ heap[h][Len(heap[h])] # None

\* ------------------------------------------------- C9
\* C9: every non-empty slot of rank r of a BinomialHeap holds a tree whose
\* root has r children, that has 2^r nodes and whose children in stored
\* order are binomial trees of rank 0..r-1.
SlotsHoldBinomialTrees ==
  H = "BinomialHeap" =>
    \A h \in Handles : \A i \in 1..Len(heap[h]) :
      heap[h][i] # None =>
        /\ IsBinomialTree(nodes, heap[h][i], i - 1)
        /\ TreeSize(nodes, heap[h][i]) = 2 ^ (i - 1)

\* A heap holds a tree of rank 2 and the other heap is its delete_min: the
\* children of that tree, as a forest.
RankTwoTreeDeleted ==
  /\ H = "BinomialHeap"
  /\ \E h \in Handles, g \in Handles :
       /\ Len(heap[h]) = 3
       /\ heap[h][1] = None /\ heap[h][2] = None /\ heap[h][3] # None
       /\ heap[g] = nodes[heap[h][3]].children \o <<None>>

\* ------------------------------------------------- C10
\* C10: every node of a LeftistHeap has rank(a) >= rank(b) and a stored rank
\* of rank(b) + 1.
LeftistRankInvariant ==
  H = "LeftistHeap" =>
    \A n \in 1..Len(nodes) :
      /\ rank(nodes, nodes[n].a) >= rank(nodes, nodes[n].b)
      /\ nodes[n].rank = rank(nodes, nodes[n].b) + 1

\* A node of rank 2 next to a node whose merge swapped its children.
RankTwoNode ==
  /\ H = "LeftistHeap"
  /\ \E n \in 1..Len(nodes) : nodes[n].rank = 2
  /\ \E n \in 1..Len(nodes) : nodes[n].a # None /\ nodes[n].b = None

\* ------------------------------------------------- C4
PlusElems(f, g) == [e \in Elem |-> f[e] + g[e]]

\* C4: the elements of merge(A, B) are the multiset sum of the elements of
\* A and of B, for both implementations and either order of the arguments.
MergeIsMultisetSum ==
  \A a \in Handles, b \in Handles :
    LET m == Heap_merge(nodes, heap[a], heap[b])
    IN HeapElems(m.nodes, m.heap) = PlusElems(HeapElems(nodes, heap[a]), HeapElems(nodes, heap[b]))

\* Two different binomial heaps whose merge carries a tree past the highest
\* slot of both.
MergeFlushesCarry ==
  /\ H = "BinomialHeap"
  /\ \E a \in Handles, b \in Handles :
       /\ Len(heap[a]) = 1 /\ heap[a][1] # None
       /\ Len(heap[b]) = 2 /\ heap[b][1] # None /\ heap[b][2] # None
       /\ Len(BinomialHeap_merge(nodes, heap[a], heap[b]).heap) = 3

\* ------------------------------------------------- C6
\* r is the result of an operation on the heaps of the current state: every
\* node alive before it is as it was, and every heap variable holds the same
\* elements and the same minimum over the store of r.
PersistsAfter(r) ==
  /\ \A n \in 1..Len(nodes) : r.nodes[n] = nodes[n]
  /\ \A h \in Handles :
       /\ HeapElems(r.nodes, heap[h]) = HeapElems(nodes, heap[h])
       /\ Heap_find_min(r.nodes, heap[h]) = Heap_find_min(nodes, heap[h])

\* C6: insert, merge and delete_min leave their arguments, and every other
\* heap, as they were: nodes, elements and find_min.
Persistence ==
  \A h \in Handles :
    /\ \A item \in Elem : PersistsAfter(Heap_insert(nodes, heap[h], item))
    /\ PersistsAfter(Heap_delete_min(nodes, heap[h]))
    /\ \A g \in Handles : PersistsAfter(Heap_merge(nodes, heap[h], heap[g]))

\* Two different heaps that share a node: one was derived from the other.
SharedAfterDerivation ==
  /\ heap["h1"] # heap["h2"]
  /\ SeqRange(Reach(nodes, Roots(heap["h1"]), << >>))
       \cap SeqRange(Reach(nodes, Roots(heap["h2"]), << >>)) # {}
  /\ HeapSize(nodes, heap["h1"]) < HeapSize(nodes, heap["h2"])

\* ------------------------------------------------- C7
\* C7: the collapse loop of from_iter stops only when fewer than two entries
\* remain or the rank of the second-from-top entry is greater than the rank
\* of the top entry.
CollapseStopsOnlyWhenSecondGreater ==
  (pc = "while" /\ Len(stack) >= 2) =>
    rank(nodes, stack[Len(stack) - 1]) > rank(nodes, stack[Len(stack)])

\* ------------------------------------------------- C5
\* C5: draining from_iter(s) yields s sorted, item by item, then None on
\* every later call of next.
DrainIsSorted ==
  pc = "next" =>
    /\ Len(output) <= Len(original)
    /\ output = SubSeq(Sorted(original), 1, Len(output))
    /\ nones > 0 => Len(output) = Len(original)

\* An unsorted input with a duplicate, drained, and next called again.
DrainedAndCalledAgain ==
  /\ pc = "next"
  /\ nones = MaxExtra
  /\ Len(original) >= 3
  /\ original # Sorted(original)
  /\ \E i \in 1..Len(original), j \in 1..Len(original) : i # j /\ original[i] = original[j]
  /\ output = Sorted(original)

\* ------------------------------------------------- C2
\* C2: after the inserts of original into an empty BinomialHeap and k calls
\* of delete_min, find_min is the (k+1)-th smallest item of original for
\* k < n and None for k >= n.
FindMinIsKthSmallest ==
  H = "BinomialHeap" =>
    \A i \in 1..Len(output) :
      output[i] = IF i <= Len(original) THEN Sorted(original)[i] ELSE None

\* An unsorted input with a duplicate, emptied, and delete_min called again.
EmptiedAndDeletedAgain ==
  /\ H = "BinomialHeap"
  /\ Len(original) >= 3
  /\ original # Sorted(original)
  /\ \E i \in 1..Len(original), j \in 1..Len(original) : i # j /\ original[i] = original[j]
  /\ Len(output) = Len(original) + 1 + MaxExtra

\* ------------------------------------------------- C3
\* What is left to do in properties::sorting: the items to insert, the nodes
\* to delete and the way to the end of the function.
SortingVariant ==
  3 * Len(iter) + HeapSize(nodes, heap["h1"])
    + (IF pc = "insert" THEN 2 ELSE IF pc = "loop" THEN 1 ELSE 0)

\* C3: with a LeftistHeap the loop of properties::sorting never unwraps a
\* None, every step of it brings the end nearer (so it terminates), and it
\* ends with output = original sorted.
SortingSorts ==
  /\ [](H = "LeftistHeap" =>
         /\ pc # "panic"
         /\ pc = "done" => output = Sorted(original))
  /\ [][H = "LeftistHeap" => SortingVariant' < SortingVariant]_vars

\* An unsorted input with a duplicate, sorted by the loop.
SortedByLoop ==
  /\ H = "LeftistHeap"
  /\ pc = "done"
  /\ Len(original) >= 3
  /\ original # Sorted(original)
  /\ \E i \in 1..Len(original), j \in 1..Len(original) : i # j /\ original[i] = original[j]
  /\ output = Sorted(original)

====
